---- MODULE Spec2Model ----
(***************************************************************************)
(* Model of the query-time core of fincommerce:                            *)
(*   VectorDB.search   (src/src/retrieval/search_engine.py)                *)
(*   Ranker.rank       (src/src/processing/ranker.py)                      *)
(*   search_products   (src/api/main.py)                                   *)
(*                                                                         *)
(* Strings are sequences of one-character strings, so that strip(),        *)
(* lower(), title(), split(';'), ' '.join() and the `in` substring test    *)
(* are computed the way Python computes them.  Scores are integers in      *)
(* units of 1e-6 (1.0 = 1000000); prices and budgets are integers.         *)
(*                                                                         *)
(* Modelling assumption: setattr(pt, '_fincommerce_match_type', ...)       *)
(* succeeds on every hit object (it is recorded in the field match_type).  *)
(***************************************************************************)
EXTENDS Integers, Sequences, FiniteSets, TLC

\* ------------------------------------------------------------------ bounds
MaxCatalog == 2
MaxTopK == 2
MaxRankHits == 3
MaxFeedback == 1
MaxProducts == 3
MaxTexts == 3

\* ------------------------------------------------------- program constants
vector_size == 384
ScrollLimit == 10000
ONE == 1000000
HALF == 500000
\* ScoringWeights defaults, in hundredths
w_semantic == 60
w_budget_fit == 30
w_price_advantage == 10
WeightUnit == 100

None == <<"<None>">>

\* --------------------------------------------------------- Python strings
IsSpace(c) == c = " "

LowerChar(c) ==
  CASE c = "A" -> "a" [] c = "B" -> "b" [] c = "C" -> "c" [] c = "E" -> "e"
    [] c = "L" -> "l" [] c = "N" -> "n" [] c = "O" -> "o" [] c = "R" -> "r"
    [] c = "T" -> "t" [] c = "U" -> "u" [] c = "V" -> "v" [] c = "G" -> "g"
    [] c = "I" -> "i" [] c = "S" -> "s" [] c = "X" -> "x" [] c = "Y" -> "y"
    [] OTHER -> c

UpperChar(c) ==
  CASE c = "a" -> "A" [] c = "b" -> "B" [] c = "c" -> "C" [] c = "e" -> "E"
    [] c = "l" -> "L" [] c = "n" -> "N" [] c = "o" -> "O" [] c = "r" -> "R"
    [] c = "t" -> "T" [] c = "u" -> "U" [] c = "v" -> "V" [] c = "g" -> "G"
    [] c = "i" -> "I" [] c = "s" -> "S" [] c = "x" -> "X" [] c = "y" -> "Y"
    [] OTHER -> c

IsCased(c) == LowerChar(c) # c \/ UpperChar(c) # c

\* str.lower()
Lower(s) == [i \in 1..Len(s) |-> LowerChar(s[i])]

\* str.strip(): drop leading and trailing whitespace
Strip(s) ==
  LET idx == {i \in 1..Len(s) : ~IsSpace(s[i])}
  IN  IF idx = {} THEN <<>>
      ELSE LET lo == CHOOSE i \in idx : \A j \in idx : i <= j
               hi == CHOOSE i \in idx : \A j \in idx : i >= j
           IN  SubSeq(s, lo, hi)

\* str.title(): first cased character of every run of letters upper-cased,
\* the other cased characters lower-cased
Title(s) ==
  [i \in 1..Len(s) |->
     IF i > 1 /\ IsCased(s[i-1]) THEN LowerChar(s[i]) ELSE UpperChar(s[i])]

\* the `sub in s` substring test
Contains(s, sub) ==
  \E i \in 0..(Len(s) - Len(sub)) : SubSeq(s, i + 1, i + Len(sub)) = sub

\* str.split(sep): always at least one (possibly empty) piece
RECURSIVE Split(_, _)
Split(s, sep) ==
  LET idx == {i \in 1..Len(s) : s[i] = sep}
  IN  IF idx = {} THEN <<s>>
      ELSE LET k == CHOOSE i \in idx : \A j \in idx : i <= j
           IN  <<SubSeq(s, 1, k - 1)>> \o Split(SubSeq(s, k + 1, Len(s)), sep)

\* sep.join(parts)
RECURSIVE Join(_, _)
Join(parts, sep) ==
  IF parts = <<>> THEN <<>>
  ELSE IF Len(parts) = 1 THEN parts[1]
  ELSE parts[1] \o sep \o Join(Tail(parts), sep)

\* Python truthiness of an Optional[str]
Truthy(s) == s # None /\ s # <<>>

\* the slice forgotten: the whole list is returned
Take_NoTruncation(xs, n) == xs

\* xs[:n] for n >= 0
Take(xs, n) == SubSeq(xs, 1, IF n < Len(xs) THEN n ELSE Len(xs))

\* None for Optional[float] / Optional[int] arguments
NoneNum == -1

\* a payload price that float() cannot parse
Unparseable == -2

\* ------------------------------------------------ catalog items (payloads)
Str_Ab == <<"A", "b">>
Str_c == <<"c">>
Str_E == <<"E">>
Str_tv == <<"t", "v">>
Str_d == <<"d">>

Item(id, title, isList, tstr, tlist, cat, price) ==
  [product_id |-> id, title |-> title, description |-> Str_d,
   tags_is_list |-> isList, tags_str |-> tstr, tags_list |-> tlist,
   category |-> cat, price |-> price, has_price |-> TRUE]

\* title "Ab", tags "x;y", canonical category, cheap
I1 == Item(1, Str_Ab, FALSE, <<"x", ";", "y">>, <<>>, Str_E, 1)
\* tags given as a list ["a", "b"], expensive
I2 == Item(2, Str_c, TRUE, <<>>, << <<"a">>, <<"b">> >>, Str_E, 3)
\* category lower-cased by the indexer (index_all_products.py:45), expensive
I3 == Item(3, Str_c, FALSE, <<>>, <<>>, Str_tv, 3)
\* matches none of the query texts
I4 == Item(4, Str_c, FALSE, <<"y">>, <<>>, Str_E, 1)

\* title "t", indexed from a product whose description is null:
\* index_products stores product.get('description', '') as it is
I5 == [Item(5, <<"t">>, FALSE, <<>>, <<>>, Str_E, 1)
         EXCEPT !.description = None]

ItemPool == {I1, I2, I3, I4, I5}

\* catalogs: the stored points in the order scroll pages through them, which
\* is by point id; index_products takes the product's id as the point id
Catalogs ==
  UNION {{c \in [1..n -> ItemPool] :
            \A i, j \in 1..n : i < j => c[i].product_id < c[j].product_id} :
           n \in 0..MaxCatalog}

\* ---------------------------------------------------------- request inputs
QueryTexts ==
  { <<>>, <<" ">>, <<" ", "A", " ">>, <<"a", " ", "b">>, <<"t">> }

CategoryArgs ==
  { None, <<>>, <<" ">>, <<"N", "o", "n", "e">>,
    <<"a", "l", "l", " ", "c", "a", "t", "e", "g", "o", "r", "i", "e", "s">>,
    <<"N", "U", "L", "L", " ">>, <<"e", " ">>, <<"t", "v">> }

SentinelCategories ==
  { <<>>,
    <<"a", "l", "l", " ", "c", "a", "t", "e", "g", "o", "r", "i", "e", "s">>,
    <<"n", "o", "n", "e">>, <<"n", "u", "l", "l">> }

VectorLens == {0, vector_size - 1, vector_size}
MaxBudgets == {NoneNum, 2}
AliasBudgets == {NoneNum, 3}
MinScores == {NoneNum, 800000}
Scores == {450000, 900000}
ScanShapes == {"Record", "ScoredPoint"}

\* endpoint = TRUE: the call comes from POST /search, whose schema demands a
\* query of at least one character and a budget, passed as max_budget only,
\* and whose query vector is the embedder's, of vector_size components
Requests ==
  { r \in [query_vector_len : VectorLens, max_budget : MaxBudgets,
           budget : AliasBudgets, category : CategoryArgs, top_k : 1..MaxTopK,
           min_score : MinScores, query_text : QueryTexts,
           endpoint : BOOLEAN] :
      r.endpoint => /\ r.query_text # <<>>
                    /\ r.query_vector_len = vector_size
                    /\ r.max_budget # NoneNum
                    /\ r.budget = NoneNum }

NoRequest ==
  [query_vector_len |-> 0, max_budget |-> NoneNum, budget |-> NoneNum,
   category |-> None, top_k |-> 1, min_score |-> NoneNum,
   query_text |-> <<>>, endpoint |-> FALSE]

NoResponse ==
  [status |-> 0, total_results |-> 0, results |-> <<>>, explanation |-> None]

\* api/main.py 266-272: what global_exception_handler answers
ErrorResponse ==
  [status |-> 500, total_results |-> 0, results |-> <<>>,
   explanation |-> None]

\* the concurrent requests of the service, and the locals of a request that
\* has not started
Procs == {1, 2}

Idle ==
  [pc |-> "idle", req |-> NoRequest, hits |-> <<>>, ranked |-> <<>>,
   response |-> NoResponse]

NoneInFlight == [p \in Procs |-> Idle]

\* no call of index_products in progress
IndexerIdle ==
  [pc |-> "idle", products |-> <<>>, batch_size |-> NoneNum, i |-> 0,
   indexed_count |-> 0, upserted |-> <<>>, outcome |-> "none",
   result |-> NoneNum]

\* no call of embed_batch in progress
BatcherIdle ==
  [pc |-> "idle", texts |-> <<>>, batch_size |-> 0, i |-> 0,
   all_embeddings |-> <<>>, outcome |-> "none"]

\* ------------------------------------------------------------- hit objects
\* shape "ScoredPoint": has a score attribute; shape "Record": has none and
\* supports no item assignment
Hit(item, shape, score) ==
  [payload |-> item, shape |-> shape, score |-> score, match_type |-> ""]

HasScoreAttr(pt) == pt.shape = "ScoredPoint"

\* ------------------------------------------------------------------- state
VARIABLES
  catalog,      \* the indexed collection, in scroll order
  pc,           \* "idle", "embed", "search", "scroll", "searched", "ranked",
                \* "responded"; "rank_idle", "rank_done" for Ranker.rank alone
  req,          \* arguments of the search request in progress
  query_filter, \* the Filter handed to query_points
  backendHits,  \* the points query_points returned, as the backend reported them
  results,      \* the same objects after the narrow loop assigned to them
  scanned,      \* the records scroll returned, as the backend reported them
  all_points,   \* the same objects after the wide loop assigned to them
  ret,          \* the list VectorDB.search returned
  outcome,      \* "none", "returned", "raised"
  stage,        \* which stage produced ret: "invalid", "vector", "narrow", "wide"
  queryCalls,   \* calls of client.query_points in this request
  scrollCalls,  \* calls of client.scroll in this request
  ranked,       \* the list Ranker.rank returned
  response,     \* the HTTP response of POST /search
  inflight,     \* concurrent requests: each one's position and locals
  user_feedback_store,  \* the module-level list POST /feedback appends to
  indexer,      \* a call of VectorDB.index_products: arguments, loop position,
                \* count, what the collection received, outcome
  batcher       \* a call of EmbeddingService.embed_batch: arguments, loop
                \* position, vectors collected, outcome

vars == <<catalog, pc, req, query_filter, backendHits, results, scanned,
          all_points, ret, outcome, stage, queryCalls, scrollCalls, ranked,
          response, inflight, user_feedback_store, indexer, batcher>>

\* the state of the concurrent requests
concVars == <<inflight, user_feedback_store>>

toolVars == <<indexer, batcher>>

NoFilter == [price_lte |-> NoneNum, category |-> None]

\* ------------------------------------------------------- VectorDB.search
\* only the emptiness of the vector is checked, not its length
InvalidVector_EmptyOnly(len) == len = 0

\* the guard of the early return: `not query_vector or len != vector_size`
InvalidVector(len) == len = 0 \/ len # vector_size

EffectiveBudget(max_budget, budget) ==
  IF max_budget # NoneNum THEN max_budget ELSE budget

\* `category and str(category).strip().lower() not in [...]`
HasCategoryFilter(category) ==
  Truthy(category) /\ Lower(Strip(category)) \notin SentinelCategories

\* the Filter(must=[...]) built from the arguments (None when empty)
BuildFilter(max_budget, budget, category) ==
  [price_lte |-> EffectiveBudget(max_budget, budget),
   category  |-> IF HasCategoryFilter(category) THEN Title(Strip(category))
                 ELSE None]

\* the backend's evaluation of the filter: Range(lte) and exact match.value
PassesFilter(payload, f) ==
  /\ (f.price_lte # NoneNum =>
        /\ payload.has_price
        /\ payload.price # Unparseable
        /\ payload.price <= f.price_lte)
  /\ (f.category # None => payload.category = f.category)

\* query_points ignoring its limit: any number of passing points
QueryResponses_NoLimit(cat, f, limit, score_threshold) ==
  LET eligible == {i \in 1..Len(cat) : PassesFilter(cat[i], f)}
      okScores == {x \in Scores : score_threshold = NoneNum \/ x >= score_threshold}
  IN  UNION {
        { [k \in 1..n |-> Hit(cat[is[k]], "ScoredPoint", ss[k])] :
            is \in {x \in [1..n -> eligible] :
                      \A i, j \in 1..n : i # j => x[i] # x[j]},
            ss \in {y \in [1..n -> okScores] :
                      \A i \in 1..n : i < n => y[i] >= y[i + 1]} } :
        n \in 0..Cardinality(eligible) }

\* what query_points may answer: at most `limit` distinct points that pass
\* the filter, best score first, none below the threshold
QueryResponses(cat, f, limit, score_threshold) ==
  LET eligible == {i \in 1..Len(cat) : PassesFilter(cat[i], f)}
      okScores == {x \in Scores : score_threshold = NoneNum \/ x >= score_threshold}
      maxN     == IF limit < Cardinality(eligible) THEN limit
                  ELSE Cardinality(eligible)
  IN  UNION {
        { [k \in 1..n |-> Hit(cat[is[k]], "ScoredPoint", ss[k])] :
            is \in {x \in [1..n -> eligible] :
                      \A i, j \in 1..n : i # j => x[i] # x[j]},
            ss \in {y \in [1..n -> okScores] :
                      \A i \in 1..n : i < n => y[i] >= y[i + 1]} } :
        n \in 0..maxN }

\* what scroll(limit=10000) answers: every stored point, unfiltered
ScrollResponse(cat, shape, score) ==
  [k \in 1..(IF Len(cat) < ScrollLimit THEN Len(cat) ELSE ScrollLimit) |->
     Hit(cat[k], shape, IF shape = "ScoredPoint" THEN score ELSE NoneNum)]

\* `' '.join(tags if list else str(tags).split(';')).lower()`
TagsOf(payload) ==
  Lower(Join(IF payload.tags_is_list THEN payload.tags_list
             ELSE Split(payload.tags_str, ";"), <<" ">>))

\* `category_lc = str(category).strip().lower() if category else None`
CategoryLc(category) ==
  IF Truthy(category) THEN Lower(Strip(category)) ELSE None

\* the category test of the exact-match loops left out
PassesCategory_Ignored(payload, category_lc) == TRUE

\* `if category_lc and cat != category_lc: continue` negated
PassesCategory(payload, category_lc) ==
  ~(Truthy(category_lc) /\ Lower(payload.category) # category_lc)

\* the operands of `in` swapped: the field is looked up in the query
SubstringMatch_Swapped(payload, query_lc) ==
  \/ Contains(query_lc, Lower(payload.title))
  \/ Contains(query_lc, TagsOf(payload))
  \/ Contains(query_lc, Lower(payload.category))

\* `query_lc in title or query_lc in tags or query_lc in cat`
SubstringMatch(payload, query_lc) ==
  \/ Contains(Lower(payload.title), query_lc)
  \/ Contains(TagsOf(payload), query_lc)
  \/ Contains(Lower(payload.category), query_lc)

IsStrictMatch(payload, query_lc, category_lc) ==
  PassesCategory(payload, category_lc) /\ SubstringMatch(payload, query_lc)

\* a matching point tagged, its backend score left as it was
MarkStrict_KeepsScore(pt) == [pt EXCEPT !.match_type = "strict"]

\* the assignments made to a matching point: the match-type tag, and the
\* score when the object has one (item assignment fails on a Record)
MarkStrict(pt) ==
  [pt EXCEPT !.match_type = "strict",
             !.score = IF HasScoreAttr(pt) THEN ONE ELSE @]

\* every point of the pool appended to strict_matches, matching or not
StrictLoop_KeepsAll(pool, query_lc, category_lc) ==
  LET after == [i \in 1..Len(pool) |->
                  IF IsStrictMatch(pool[i].payload, query_lc, category_lc)
                  THEN MarkStrict(pool[i]) ELSE pool[i]]
  IN  [pool |-> after, strict_matches |-> after]

\* one exact-match loop over a pool: the pool after the in-place
\* assignments, and strict_matches in pool order
StrictLoop(pool, query_lc, category_lc) ==
  LET after == [i \in 1..Len(pool) |->
                  IF IsStrictMatch(pool[i].payload, query_lc, category_lc)
                  THEN MarkStrict(pool[i]) ELSE pool[i]]
      Keep(pt) == IsStrictMatch(pt.payload, query_lc, category_lc)
  IN  [pool |-> after, strict_matches |-> SelectSeq(after, Keep)]

QueryLc(query_text) == Lower(Strip(query_text))

\* ------------------------------------------------------------ Ranker.rank
\* round(x, 4) on a value in units of 1e-6
Round4(x) == ((x + 50) \div 100) * 100

\* `hit.score if hasattr(hit, 'score') else 0.0`
SemanticScore(hit) == IF HasScoreAttr(hit) THEN hit.score ELSE 0

\* an item priced exactly at the budget counted as over budget
BudgetFit_Strict(price, user_budget) ==
  IF price < user_budget THEN ONE ELSE HALF

\* `1.0 if price <= user_budget else 0.5`
BudgetFit(price, user_budget) == IF price <= user_budget THEN ONE ELSE HALF

\* the ratio without max(0, ...): negative for an item over budget
PriceAdvantage_Unclipped(price, user_budget) ==
  IF user_budget > 0
  THEN ((user_budget - price) * ONE) \div user_budget
  ELSE 0

\* `max(0, (user_budget - price) / user_budget) if user_budget > 0 else 0`
PriceAdvantage(price, user_budget) ==
  IF user_budget > 0 /\ user_budget - price > 0
  THEN ((user_budget - price) * ONE) \div user_budget
  ELSE 0

\* the semantic and the budget-fit weight exchanged
FinalScore_WeightsSwapped(semantic_score, budget_fit, price_advantage) ==
  (w_budget_fit * semantic_score + w_semantic * budget_fit
     + w_price_advantage * price_advantage) \div WeightUnit

\* the composite: weights.semantic * semantic_score
\* + weights.budget_fit * budget_fit + weights.price_advantage * price_advantage
FinalScore(semantic_score, budget_fit, price_advantage) ==
  (w_semantic * semantic_score + w_budget_fit * budget_fit
     + w_price_advantage * price_advantage) \div WeightUnit

\* `payload.get("price", 0)`: a payload without the key reads as 0
PriceRead(payload) == IF payload.has_price THEN payload.price ELSE 0

\* round(x, 2) on an amount of money; amounts are in thousandths of the
\* currency unit
Round2(x) == ((x + 5) \div 10) * 10

\* round(semantic_score * 100, 1), in tenths of a percent
MatchPct(semantic_score) == (semantic_score + 500) \div 1000

\* _generate_explanation: which of the three sentences is produced, with
\* the percentage and the amount printed in it
GenerateExplanation(semantic_score, price, user_budget, budget_fit) ==
  LET match_pct == MatchPct(semantic_score)
  IN  IF price <= user_budget
      THEN LET savings == Round2(user_budget - price)
           IN  IF savings > 0
               THEN [sentence |-> "under budget", match_pct |-> match_pct,
                     amount |-> savings]
               ELSE [sentence |-> "fits exactly", match_pct |-> match_pct,
                     amount |-> 0]
      ELSE [sentence |-> "over budget", match_pct |-> match_pct,
            amount |-> Round2(price - user_budget)]

\* the dictionary appended to ranked_results for one hit
RankedResult(hit, user_budget) ==
  LET price == PriceRead(hit.payload)
      sem   == SemanticScore(hit)
      bf    == BudgetFit(price, user_budget)
      pa    == PriceAdvantage(price, user_budget)
  IN  [product_id |-> hit.payload.product_id,
       title |-> hit.payload.title,
       description |-> hit.payload.description,
       category |-> hit.payload.category,
       price |-> price,
       semantic_score |-> Round4(sem),
       budget_fit |-> bf,
       price_advantage |-> Round4(pa),
       composite_score |-> Round4(FinalScore(sem, bf, pa)),
       explanation |-> GenerateExplanation(sem, price, user_budget, bf)]

\* `if final_score < min_score: continue` negated
AboveThreshold(hit, user_budget, min_score) ==
  LET price == PriceRead(hit.payload)
  IN  FinalScore(SemanticScore(hit), BudgetFit(price, user_budget),
                 PriceAdvantage(price, user_budget)) >= min_score

\* list.sort(key=composite_score, reverse=True): stable, descending
RECURSIVE SortDesc(_)
SortDesc(rs) ==
  IF rs = <<>> THEN <<>>
  ELSE LET n    == Len(rs)
           init == SortDesc(SubSeq(rs, 1, n - 1))
           x    == rs[n]
           ge   == {i \in 1..Len(init) :
                      init[i].composite_score >= x.composite_score}
           k    == IF ge = {} THEN 0
                   ELSE CHOOSE i \in ge : \A j \in ge : i >= j
       IN  SubSeq(init, 1, k) \o <<x>> \o SubSeq(init, k + 1, Len(init))

\* `float(payload.get("price", 0))` succeeds; otherwise the except clause
\* of the loop body skips the hit
WellFormed(hit) == PriceRead(hit.payload) # Unparseable

\* Ranker.rank sorting the kept hits taken in reverse input order
Rank_TiesReversed(search_hits, user_budget, min_score) ==
  LET Keep(hit) == /\ WellFormed(hit)
                   /\ AboveThreshold(hit, user_budget, min_score)
      kept == SelectSeq(search_hits, Keep)
      n    == Len(kept)
  IN  SortDesc([i \in 1..n |-> RankedResult(kept[n + 1 - i], user_budget)])

\* Ranker.rank: the hits that parse and reach min_score, as result
\* dictionaries, sorted
Rank(search_hits, user_budget, min_score) ==
  LET Keep(hit) == /\ WellFormed(hit)
                   /\ AboveThreshold(hit, user_budget, min_score)
      kept == SelectSeq(search_hits, Keep)
  IN  SortDesc([i \in 1..Len(kept) |-> RankedResult(kept[i], user_budget)])

\* ------------------------------------------------------------------ actions
Init ==
  /\ catalog \in Catalogs
  /\ pc = "idle"
  /\ req = NoRequest
  /\ query_filter = NoFilter
  /\ backendHits = <<>>
  /\ results = <<>>
  /\ scanned = <<>>
  /\ all_points = <<>>
  /\ ret = <<>>
  /\ outcome = "none"
  /\ stage = "none"
  /\ queryCalls = 0
  /\ scrollCalls = 0
  /\ ranked = <<>>
  /\ response = NoResponse
  /\ inflight = NoneInFlight
  /\ user_feedback_store = <<>>
  /\ indexer = IndexerIdle
  /\ batcher = BatcherIdle

\* a caller invokes VectorDB.search(query_vector, max_budget, category,
\* top_k, score_threshold, budget, query_text)
Request ==
  /\ pc = "idle"
  /\ \E r \in Requests :
       /\ req' = r
       /\ pc' = IF r.endpoint THEN "embed" ELSE "search"
  /\ UNCHANGED <<concVars, toolVars>>
  /\ UNCHANGED <<response, catalog, query_filter, backendHits, results, scanned,
                 all_points, ret, outcome, stage, queryCalls, scrollCalls,
                 ranked>>

\* lines 178-180: a bad query vector is logged and [] is returned
SearchInvalidVector ==
  /\ pc = "search"
  /\ InvalidVector(req.query_vector_len)
  /\ ret' = <<>>
  /\ outcome' = "returned"
  /\ stage' = "invalid"
  /\ pc' = "searched"
  /\ UNCHANGED <<concVars, toolVars>>
  /\ UNCHANGED <<response, catalog, req, query_filter, backendHits, results, scanned,
                 all_points, queryCalls, scrollCalls, ranked>>

\* lines 182-244 and 271: build the filter, call query_points, then either
\* return the raw results (falsy query_text), return the narrow pool's
\* strict matches, or go on to the full scan
SearchQuery ==
  /\ pc = "search"
  /\ ~InvalidVector(req.query_vector_len)
  /\ LET f == BuildFilter(req.max_budget, req.budget, req.category)
     IN  /\ query_filter' = f
         /\ queryCalls' = queryCalls + 1
         /\ \E resp \in QueryResponses(catalog, f, req.top_k, req.min_score) :
              /\ backendHits' = resp
              /\ IF ~Truthy(req.query_text)
                 THEN /\ results' = resp
                      /\ ret' = resp
                      /\ outcome' = "returned"
                      /\ stage' = "vector"
                      /\ pc' = "searched"
                 ELSE LET loop == StrictLoop(resp, QueryLc(req.query_text),
                                             CategoryLc(req.category))
                      IN  /\ results' = loop.pool
                          /\ IF loop.strict_matches # <<>>
                             THEN /\ ret' = Take(loop.strict_matches, req.top_k)
                                  /\ outcome' = "returned"
                                  /\ stage' = "narrow"
                                  /\ pc' = "searched"
                             ELSE /\ pc' = "scroll"
                                  /\ UNCHANGED <<ret, outcome, stage>>
  /\ UNCHANGED <<concVars, toolVars>>
  /\ UNCHANGED <<response, catalog, req, scanned, all_points, scrollCalls, ranked>>

\* the except clause starting the search over
AfterRaise_Retry == "search"

\* lines 272-277: the except clause logs and re-raises, search is over
AfterRaise == "searched"

\* lines 201-209 and 272-277: query_points raises and search re-raises
SearchQueryFails ==
  /\ pc = "search"
  /\ ~InvalidVector(req.query_vector_len)
  /\ query_filter' = BuildFilter(req.max_budget, req.budget, req.category)
  /\ queryCalls' = queryCalls + 1
  /\ outcome' = "raised"
  /\ pc' = AfterRaise
  /\ UNCHANGED <<concVars, toolVars>>
  /\ UNCHANGED <<response, catalog, req, backendHits, results, scanned, all_points,
                 ret, stage, scrollCalls, ranked>>

\* lines 245-270: scroll the whole collection and return its strict matches
SearchScroll ==
  /\ pc = "scroll"
  /\ scrollCalls' = scrollCalls + 1
  /\ \E shape \in ScanShapes, sc \in Scores :
       LET recs == ScrollResponse(catalog, shape, sc)
           loop == StrictLoop(recs, QueryLc(req.query_text),
                              CategoryLc(req.category))
       IN  /\ scanned' = recs
           /\ all_points' = loop.pool
           /\ ret' = Take(loop.strict_matches, req.top_k)
  /\ outcome' = "returned"
  /\ stage' = "wide"
  /\ pc' = "searched"
  /\ UNCHANGED <<concVars, toolVars>>
  /\ UNCHANGED <<response, catalog, req, query_filter, backendHits, results,
                 queryCalls, ranked>>

\* lines 247 and 272-277: scroll raises and search re-raises
SearchScrollFails ==
  /\ pc = "scroll"
  /\ scrollCalls' = scrollCalls + 1
  /\ outcome' = "raised"
  /\ pc' = AfterRaise
  /\ UNCHANGED <<concVars, toolVars>>
  /\ UNCHANGED <<response, catalog, req, query_filter, backendHits, results, scanned,
                 all_points, ret, stage, queryCalls, ranked>>

\* the request came through search_products, which passes the budget as
\* max_budget only and a budget is required by the request schema
ApiCall == req.max_budget # NoneNum /\ req.budget = NoneNum

\* api/main.py 235-243: an exception of search becomes hits = [], then the
\* hits are ranked with user_budget = budget, min_score = min_score or 0.0
RankHits ==
  /\ pc = "searched"
  /\ ApiCall
  /\ LET hits == IF outcome = "raised" THEN <<>> ELSE ret
         ms   == IF req.min_score = NoneNum THEN 0 ELSE req.min_score
     IN  ranked' = Rank(hits, req.max_budget, ms)
  /\ pc' = "ranked"
  /\ UNCHANGED <<concVars, toolVars>>
  /\ UNCHANGED <<response, catalog, req, query_filter, backendHits, results, scanned,
                 all_points, ret, outcome, stage, queryCalls, scrollCalls>>

\* embedder.py: embed raises ValueError for a text that is empty after
\* strip()
EmbedRaises(text) == ~Truthy(text) \/ Strip(text) = <<>>

\* api/main.py 223: the query is embedded
Embed ==
  /\ pc = "embed"
  /\ ~EmbedRaises(req.query_text)
  /\ pc' = "search"
  /\ UNCHANGED <<concVars, toolVars>>
  /\ UNCHANGED <<response, catalog, req, query_filter, backendHits, results,
                 scanned, all_points, ret, outcome, stage, queryCalls,
                 scrollCalls, ranked>>

\* api/main.py 223 and 266-272: embed raises, the global handler answers
EmbedFails ==
  /\ pc = "embed"
  /\ EmbedRaises(req.query_text)
  /\ response' = ErrorResponse
  /\ pc' = "responded"
  /\ UNCHANGED <<concVars, toolVars>>
  /\ UNCHANGED <<catalog, req, query_filter, backendHits, results, scanned,
                 all_points, ret, outcome, stage, queryCalls, scrollCalls,
                 ranked>>

\* ProductResult(**r): the keys budget_fit and price_advantage of the ranker
\* are no fields of the schema, whose *_score fields keep their default None
ProductResult(r) ==
  [product_id |-> r.product_id, title |-> r.title,
   description |-> r.description, price |-> r.price,
   category |-> r.category, semantic_score |-> r.semantic_score,
   budget_fit_score |-> NoneNum, price_advantage_score |-> NoneNum,
   composite_score |-> r.composite_score, explanation |-> r.explanation]

\* the fields ProductResult declares as str take no None
SchemaAccepts(r) ==
  r.title # None /\ r.description # None /\ r.category # None

\* api/main.py 245-261: every ranked dict is validated by ProductResult,
\* outside any try, and the response is built from the validated list; its
\* "explanation" entry is the constant None (line 259)
SearchResponse(rk) ==
  IF \A i \in 1..Len(rk) : SchemaAccepts(rk[i])
  THEN [status |-> 200,
        total_results |-> Len(rk),
        results |-> [i \in 1..Len(rk) |-> ProductResult(rk[i])],
        explanation |-> None]
  ELSE ErrorResponse

\* the last step of search_products
Respond ==
  /\ pc = "ranked"
  /\ req.endpoint
  /\ response' = SearchResponse(ranked)
  /\ pc' = "responded"
  /\ UNCHANGED <<concVars, toolVars>>
  /\ UNCHANGED <<catalog, req, query_filter, backendHits, results, scanned,
                 all_points, ret, outcome, stage, queryCalls, scrollCalls,
                 ranked>>

Next ==
  \/ Request
  \/ Embed
  \/ EmbedFails
  \/ Respond
  \/ SearchInvalidVector
  \/ SearchQuery
  \/ SearchQueryFails
  \/ SearchScroll
  \/ SearchScrollFails
  \/ RankHits

Spec == Init /\ [][Next]_vars

\* ---------------------------------------------------------------------
\* Ranker.rank on its own: any caller, any hit list, any budget
\* ---------------------------------------------------------------------

RankPrices == {10, 20, Unparseable}
RankScores == {450000, 750020, 900000}
RankShapes == {"Record", "ScoredPoint"}
RankBudgets == {0, 10, 12, 20}
RankMinScores == {0, 750010, 800000}

\* what one input hit may look like; a payload without the price key has
\* has_price = FALSE (its price field is not looked at and holds the 0 that
\* get() supplies), a hit without a score attribute holds no score
RankHitKinds ==
  {[price |-> IF hp THEN p ELSE 0, has_price |-> hp, shape |-> sh,
    score |-> IF sh = "ScoredPoint" THEN sc ELSE NoneNum] :
     p \in RankPrices, hp \in BOOLEAN, sh \in RankShapes, sc \in RankScores}

\* the k-th hit of an input list carries product_id k
RankHit(k, kind) ==
  Hit([Item(k, <<"p">>, FALSE, <<>>, <<>>, Str_E, kind.price)
         EXCEPT !.has_price = kind.has_price],
      kind.shape, kind.score)

\* the input list made of hits of the given kinds
RankInput(kinds) == [k \in 1..Len(kinds) |-> RankHit(k, kinds[k])]

InitRank ==
  /\ catalog = <<>>
  /\ pc = "rank_idle"
  /\ req = NoRequest
  /\ query_filter = NoFilter
  /\ backendHits = <<>>
  /\ results = <<>>
  /\ scanned = <<>>
  /\ all_points = <<>>
  /\ ret = <<>>
  /\ outcome = "none"
  /\ stage = "none"
  /\ queryCalls = 0
  /\ scrollCalls = 0
  /\ ranked = <<>>
  /\ response = NoResponse
  /\ inflight = NoneInFlight
  /\ user_feedback_store = <<>>
  /\ indexer = IndexerIdle
  /\ batcher = BatcherIdle

\* ranker.rank(search_hits, user_budget, min_score); ret holds search_hits,
\* req.max_budget the user_budget and req.min_score the min_score
RankCall ==
  /\ pc = "rank_idle"
  /\ \E n \in 0..MaxRankHits, b \in RankBudgets, ms \in RankMinScores :
       \E kinds \in [1..n -> RankHitKinds] :
         /\ ret' = RankInput(kinds)
         /\ req' = [NoRequest EXCEPT !.max_budget = b, !.min_score = ms]
         /\ ranked' = Rank(RankInput(kinds), b, ms)
  /\ pc' = "rank_done"
  /\ UNCHANGED <<concVars, toolVars>>
  /\ UNCHANGED <<response, catalog, query_filter, backendHits, results,
                 scanned, all_points, outcome, stage, queryCalls,
                 scrollCalls>>

NextRank == RankCall

SpecRank == InitRank /\ [][NextRank]_vars

\* ---------------------------------------------------------------------
\* Two search requests in flight at once, and feedback submissions
\* ---------------------------------------------------------------------

\* requests of POST /search with a query the embedder accepts
ConcRequests ==
  {r \in Requests : /\ r.endpoint
                    /\ r.category = None
                    /\ r.min_score = NoneNum
                    /\ ~EmbedRaises(r.query_text)}

\* the backend answers a question the same way whoever asks it: the first
\* `limit` passing points in id order, each with the same score
QueryAnswer(cat, f, limit) ==
  LET Passes(item) == PassesFilter(item, f)
      eligible == SelectSeq(cat, Passes)
      n == IF limit < Len(eligible) THEN limit ELSE Len(eligible)
  IN  [k \in 1..n |-> Hit(eligible[k], "ScoredPoint", 900000)]

\* every request keeping its hits in the same module-level variable
HitsSlot_Shared(p) == 1

\* `hits` is a local variable of search_products: each request has its own
HitsSlot(p) == p

InitConc ==
  /\ catalog \in Catalogs
  /\ pc = "concurrent"
  /\ req = NoRequest
  /\ query_filter = NoFilter
  /\ backendHits = <<>>
  /\ results = <<>>
  /\ scanned = <<>>
  /\ all_points = <<>>
  /\ ret = <<>>
  /\ outcome = "none"
  /\ stage = "none"
  /\ queryCalls = 0
  /\ scrollCalls = 0
  /\ ranked = <<>>
  /\ response = NoResponse
  /\ inflight = NoneInFlight
  /\ user_feedback_store = <<>>
  /\ indexer = IndexerIdle
  /\ batcher = BatcherIdle

\* what no step of a concurrent request touches
soloVars == <<pc, req, query_filter, backendHits, results, scanned, all_points,
              ret, outcome, stage, queryCalls, scrollCalls, ranked, response,
              toolVars>>

\* api/main.py 216-223: request p arrives and its query is embedded
CRequest(p) ==
  /\ inflight[p].pc = "idle"
  /\ \E r \in ConcRequests :
       inflight' = [inflight EXCEPT ![p].pc = "search", ![p].req = r]
  /\ UNCHANGED <<catalog, user_feedback_store, soloVars>>

\* search_engine.py 182-244: the vector query of request p and the exact
\* matches among its hits
CSearchVector(p) ==
  LET r    == inflight[p].req
      f    == BuildFilter(r.max_budget, r.budget, r.category)
      resp == QueryAnswer(catalog, f, r.top_k)
      loop == StrictLoop(resp, QueryLc(r.query_text), CategoryLc(r.category))
  IN  /\ inflight[p].pc = "search"
      /\ inflight' =
           IF loop.strict_matches # <<>>
           THEN [inflight EXCEPT
                   ![p].pc = "rank",
                   ![HitsSlot(p)].hits = Take(loop.strict_matches, r.top_k)]
           ELSE [inflight EXCEPT ![p].pc = "scroll"]
      /\ UNCHANGED <<catalog, user_feedback_store, soloVars>>

\* search_engine.py 245-271: the full scan of request p
CSearchScroll(p) ==
  LET r    == inflight[p].req
      recs == ScrollResponse(catalog, "Record", NoneNum)
      loop == StrictLoop(recs, QueryLc(r.query_text), CategoryLc(r.category))
  IN  /\ inflight[p].pc = "scroll"
      /\ inflight' =
           [inflight EXCEPT
              ![p].pc = "rank",
              ![HitsSlot(p)].hits = Take(loop.strict_matches, r.top_k)]
      /\ UNCHANGED <<catalog, user_feedback_store, soloVars>>

\* api/main.py 239-243: the hits of request p are ranked
CRank(p) ==
  /\ inflight[p].pc = "rank"
  /\ inflight' =
       [inflight EXCEPT
          ![p].pc = "respond",
          ![p].ranked = Rank(inflight[HitsSlot(p)].hits,
                             inflight[p].req.max_budget, 0)]
  /\ UNCHANGED <<catalog, user_feedback_store, soloVars>>

\* api/main.py 245-261: request p is answered
CRespond(p) ==
  /\ inflight[p].pc = "respond"
  /\ inflight' =
       [inflight EXCEPT
          ![p].pc = "done",
          ![p].response = SearchResponse(inflight[p].ranked)]
  /\ UNCHANGED <<catalog, user_feedback_store, soloVars>>

\* api/main.py 170-173: POST /feedback appends to the module-level list
SubmitFeedback ==
  /\ Len(user_feedback_store) < MaxFeedback
  /\ user_feedback_store' = Append(user_feedback_store, "feedback")
  /\ UNCHANGED <<catalog, inflight, soloVars>>

NextConc ==
  \/ \E p \in Procs : CRequest(p)
  \/ \E p \in Procs : CSearchVector(p)
  \/ \E p \in Procs : CSearchScroll(p)
  \/ \E p \in Procs : CRank(p)
  \/ \E p \in Procs : CRespond(p)
  \/ SubmitFeedback

SpecConc == InitConc /\ [][NextConc]_vars

\* ---------------------------------------------------------------------
\* VectorDB.index_products
\* ---------------------------------------------------------------------

\* a product as the indexer sees it: complete, without the 'embedding' key,
\* or with a price float() rejects
ProductKinds == {"ok", "no_embedding", "bad_price"}

ProductLists == UNION {[1..n -> ProductKinds] : n \in 0..MaxProducts}

\* batch_size omitted (None) or given
BatchSizes == {NoneNum, 1, 2}

\* `getattr(self, 'batch_size', 100)`: __init__ never stores its batch_size
DefaultBatchSize == 100

\* line 111
UseBatchSize(batch_size) ==
  IF batch_size # NoneNum THEN batch_size ELSE DefaultBatchSize

\* lines 113-148: the positions of products[i:i + use] that become points
PointsOf(products, i, use) ==
  LET hi == IF i + use < Len(products) THEN i + use ELSE Len(products)
      positions == [k \in 1..(hi - i) |-> i + k]
      BecomesPoint(k) == products[k] = "ok"
  IN  SelectSeq(positions, BecomesPoint)

\* lines 157 and 159: the log lines evaluate `i//batch_size` with the
\* argument, not with use_batch_size
BatchLogRaises(batch_size) == batch_size = NoneNum

InitIndex ==
  /\ catalog = <<>>
  /\ pc = "indexing"
  /\ req = NoRequest
  /\ query_filter = NoFilter
  /\ backendHits = <<>>
  /\ results = <<>>
  /\ scanned = <<>>
  /\ all_points = <<>>
  /\ ret = <<>>
  /\ outcome = "none"
  /\ stage = "none"
  /\ queryCalls = 0
  /\ scrollCalls = 0
  /\ ranked = <<>>
  /\ response = NoResponse
  /\ inflight = NoneInFlight
  /\ user_feedback_store = <<>>
  /\ indexer = IndexerIdle
  /\ batcher = BatcherIdle

\* the state of the search service, which the two batch tools leave alone
serviceVars == <<catalog, pc, req, query_filter, backendHits, results, scanned,
                 all_points, ret, outcome, stage, queryCalls, scrollCalls,
                 ranked, response, concVars>>

\* lines 95-111: the call; an empty list returns 0 at once
IndexCall ==
  /\ indexer.pc = "idle"
  /\ \E products \in ProductLists, batch_size \in BatchSizes :
       indexer' =
         IF products = <<>>
         THEN [IndexerIdle EXCEPT !.pc = "done", !.batch_size = batch_size,
                                  !.outcome = "returned", !.result = 0]
         ELSE [IndexerIdle EXCEPT !.pc = "loop", !.products = products,
                                  !.batch_size = batch_size]
  /\ UNCHANGED <<serviceVars, batcher>>

\* lines 112-159: one pass of the batch loop; the upsert succeeds or raises
IndexBatch ==
  LET use    == UseBatchSize(indexer.batch_size)
      points == PointsOf(indexer.products, indexer.i, use)
  IN  /\ indexer.pc = "loop"
      /\ indexer.i < Len(indexer.products)
      /\ IF points = <<>>
         THEN indexer' = [indexer EXCEPT !.i = @ + use]
         ELSE \E upsert_ok \in BOOLEAN :
                LET after == IF upsert_ok
                             THEN [indexer EXCEPT
                                     !.upserted = @ \o points,
                                     !.indexed_count = @ + Len(points)]
                             ELSE indexer
                IN  indexer' =
                      IF BatchLogRaises(indexer.batch_size)
                      THEN [after EXCEPT !.pc = "done", !.outcome = "raised"]
                      ELSE [after EXCEPT !.i = @ + use]
      /\ UNCHANGED <<serviceVars, batcher>>

\* lines 161-162
IndexReturn ==
  /\ indexer.pc = "loop"
  /\ indexer.i >= Len(indexer.products)
  /\ indexer' = [indexer EXCEPT !.pc = "done", !.outcome = "returned",
                                !.result = indexer.indexed_count]
  /\ UNCHANGED <<serviceVars, batcher>>

NextIndex == IndexCall \/ IndexBatch \/ IndexReturn

SpecIndex == InitIndex /\ [][NextIndex]_vars

\* ---------------------------------------------------------------------
\* EmbeddingService.embed_batch
\* ---------------------------------------------------------------------

\* texts handed to embed_batch: two words, the empty string, a blank
BatchTexts == {<<"a">>, <<"b">>, <<>>, <<" ">>}

TextLists == UNION {[1..n -> BatchTexts] : n \in 0..MaxTexts}

\* embed_batch's default batch_size
DefaultEmbedBatchSize == 32

EmbedBatchSizes == {1, 2, DefaultEmbedBatchSize}

\* the vector model.encode gives for a text
VectorOf(text) == [kind |-> "embedding", text |-> text]

\* `[0.0] * self.vector_size`
ZeroVector == [kind |-> "zero", text |-> <<>>]

\* embed, line 62: `[t.strip() for t in texts if t and t.strip()]`
ValidTexts(texts) ==
  LET NotBlank(t) == Truthy(t) /\ Truthy(Strip(t))
      kept == SelectSeq(texts, NotBlank)
  IN  [k \in 1..Len(kept) |-> Strip(kept[k])]

\* embed on a list: ValueError when nothing is left after filtering, or
\* whatever model.encode raises; otherwise one vector per text that was kept
EmbedList(texts, encode_ok) ==
  LET valid_texts == ValidTexts(texts)
  IN  IF valid_texts = <<>> \/ ~encode_ok
      THEN [raised |-> TRUE, embeddings |-> <<>>]
      ELSE [raised |-> FALSE,
            embeddings |-> [k \in 1..Len(valid_texts) |-> VectorOf(valid_texts[k])]]

InitEmbedBatch ==
  /\ catalog = <<>>
  /\ pc = "embedding"
  /\ req = NoRequest
  /\ query_filter = NoFilter
  /\ backendHits = <<>>
  /\ results = <<>>
  /\ scanned = <<>>
  /\ all_points = <<>>
  /\ ret = <<>>
  /\ outcome = "none"
  /\ stage = "none"
  /\ queryCalls = 0
  /\ scrollCalls = 0
  /\ ranked = <<>>
  /\ response = NoResponse
  /\ inflight = NoneInFlight
  /\ user_feedback_store = <<>>
  /\ indexer = IndexerIdle
  /\ batcher = BatcherIdle

\* lines 95-108: the call; an empty list returns [] at once
EmbedBatchCall ==
  /\ batcher.pc = "idle"
  /\ \E texts \in TextLists, batch_size \in EmbedBatchSizes :
       batcher' =
         IF texts = <<>>
         THEN [BatcherIdle EXCEPT !.pc = "done", !.batch_size = batch_size,
                                  !.outcome = "returned"]
         ELSE [BatcherIdle EXCEPT !.pc = "loop", !.texts = texts,
                                  !.batch_size = batch_size]
  /\ UNCHANGED <<serviceVars, indexer>>

\* lines 110-118: one pass of the batch loop; model.encode succeeds or raises
EmbedBatchStep ==
  LET i     == batcher.i
      hi    == IF i + batcher.batch_size < Len(batcher.texts)
               THEN i + batcher.batch_size ELSE Len(batcher.texts)
      batch == SubSeq(batcher.texts, i + 1, hi)
  IN  /\ batcher.pc = "loop"
      /\ i < Len(batcher.texts)
      /\ \E encode_ok \in BOOLEAN :
           LET e == EmbedList(batch, encode_ok)
               extension == IF e.raised
                            THEN [k \in 1..Len(batch) |-> ZeroVector]
                            ELSE e.embeddings
           IN  batcher' = [batcher EXCEPT
                             !.i = @ + batcher.batch_size,
                             !.all_embeddings = @ \o extension]
      /\ UNCHANGED <<serviceVars, indexer>>

\* line 120
EmbedBatchReturn ==
  /\ batcher.pc = "loop"
  /\ batcher.i >= Len(batcher.texts)
  /\ batcher' = [batcher EXCEPT !.pc = "done", !.outcome = "returned"]
  /\ UNCHANGED <<serviceVars, indexer>>

NextEmbedBatch == EmbedBatchCall \/ EmbedBatchStep \/ EmbedBatchReturn

SpecEmbedBatch == InitEmbedBatch /\ [][NextEmbedBatch]_vars

TypeOK ==
  /\ pc \in {"idle", "embed", "search", "scroll", "searched", "ranked",
            "responded", "rank_idle", "rank_done", "concurrent",
            "indexing", "embedding"}
  /\ outcome \in {"none", "returned", "raised"}
  /\ pc \notin {"rank_idle", "rank_done"} => Len(ret) <= Len(catalog)
  /\ Len(ranked) <= Len(ret)

\* ------------------------------------------------- vocabulary of the claims
PayloadsOf(hits) == [i \in 1..Len(hits) |-> hits[i].payload]

FirstN(xs, n) == [i \in 1..(IF n < Len(xs) THEN n ELSE Len(xs)) |-> xs[i]]

\* the query text, trimmed and lower-cased
TrimmedQuery == Lower(Strip(req.query_text))

\* the payload literally contains the trimmed, lower-cased query text
HasLiteral(p) ==
  \/ Contains(Lower(p.title), TrimmedQuery)
  \/ Contains(TagsOf(p), TrimmedQuery)
  \/ Contains(Lower(p.category), TrimmedQuery)

\* the category argument names a real category (not None, not a sentinel)
RealCategory ==
  /\ req.category # None
  /\ Lower(Strip(req.category)) \notin SentinelCategories

\* the category test of the exact-match stage, as the code applies it
SameCategoryAsCode(p) ==
  (req.category # None /\ req.category # <<>> /\ Strip(req.category) # <<>>)
    => Lower(p.category) = Lower(Strip(req.category))

Budget == IF req.max_budget # NoneNum THEN req.max_budget ELSE req.budget

SearchReturned == outcome = "returned" /\ stage # "invalid"

\* ------------------------------------------------------------------- C1
\* C1: when query_text is non-empty after trimming, every returned hit has a
\* title, joined tag string or category containing the trimmed, lower-cased
\* query text; semantic hits without the literal text are never returned.
C1_OnlyLiteralMatches ==
  (outcome = "returned" /\ Strip(req.query_text) # <<>>)
    => \A i \in 1..Len(ret) : HasLiteral(ret[i].payload)

\* a search that returned a literal match and discarded a semantic-only hit
C1_Witness ==
  /\ outcome = "returned"
  /\ Strip(req.query_text) # <<>>
  /\ ret # <<>>
  /\ \E i \in 1..Len(backendHits) : ~HasLiteral(backendHits[i].payload)

\* ------------------------------------------------------------------- C2
\* C2: when query_text is empty or whitespace-only, search performs no
\* full-catalog scan and returns exactly the vector query's list, in order,
\* with the scores the backend reported.
C2_BlankTextReturnsRawVectorHits ==
  (SearchReturned /\ Strip(req.query_text) = <<>>)
    => scrollCalls = 0 /\ ret = backendHits

\* ------------------------------------------------------------------- C3
\* C3: when query_text is non-empty and some vector-stage hit passes the
\* substring and category test, search returns exactly the passing hits in
\* vector-stage order truncated to top_k and never performs the full scan.
C3_NarrowPoolWins ==
  LET Pass(pt) == HasLiteral(pt.payload) /\ SameCategoryAsCode(pt.payload)
  IN  (/\ req.query_text # <<>>
       /\ \E i \in 1..Len(backendHits) : Pass(backendHits[i]))
        => /\ scrollCalls = 0
           /\ pc \in {"searched", "ranked", "responded"}
           /\ outcome = "returned"
           /\ PayloadsOf(ret) =
                PayloadsOf(FirstN(SelectSeq(backendHits, Pass), req.top_k))

\* the narrow pool kept one vector hit and dropped another
C3_Witness ==
  /\ stage = "narrow"
  /\ Strip(req.query_text) # <<>>
  /\ Len(ret) < Len(backendHits)

\* ------------------------------------------------------------------- C4
\* C4: when query_text is non-empty and no vector-stage hit passes the
\* substring test, search performs the full scan and returns exactly the
\* scanned items passing the substring and category tests, in scan order,
\* truncated to top_k; no vector-stage hit is returned.
C4_WidePoolIsTheFallback ==
  LET Pass(pt) == HasLiteral(pt.payload) /\ SameCategoryAsCode(pt.payload)
  IN  (/\ SearchReturned
       /\ req.query_text # <<>>
       /\ \A i \in 1..Len(backendHits) : ~HasLiteral(backendHits[i].payload))
        => /\ scrollCalls = 1
           /\ stage = "wide"
           /\ PayloadsOf(ret) =
                PayloadsOf(FirstN(SelectSeq(scanned, Pass), req.top_k))
           /\ \A i \in 1..Len(ret), j \in 1..Len(backendHits) :
                ret[i].payload # backendHits[j].payload

\* the scan ran, more records passed than top_k allows, and the result was
\* cut to top_k
C4_Witness ==
  LET Pass(pt) == HasLiteral(pt.payload) /\ SameCategoryAsCode(pt.payload)
  IN  /\ stage = "wide"
      /\ Strip(req.query_text) # <<>>
      /\ Len(SelectSeq(scanned, Pass)) > req.top_k
      /\ Len(ret) = req.top_k

\* ------------------------------------------------------------------- C5
\* C5: a category argument equal (trimmed, case-insensitively) to "",
\* "all categories", "none" or "null" yields the same search result as no
\* category at all, in the vector stage and in both exact-match pools.
C5_SentinelCategoryMeansNoFilter ==
  LET q        == QueryLc(req.query_text)
      narrow   == StrictLoop(backendHits, q, None).strict_matches
      wide     == StrictLoop(scanned, q, None).strict_matches
      expected == IF ~Truthy(req.query_text) THEN backendHits
                  ELSE IF narrow # <<>> THEN Take(narrow, req.top_k)
                  ELSE Take(wide, req.top_k)
  IN  (/\ SearchReturned
       /\ req.category # None
       /\ Lower(Strip(req.category)) \in SentinelCategories)
        => /\ query_filter = BuildFilter(req.max_budget, req.budget, None)
           /\ ret = expected

\* ------------------------------------------------------------------- C6
\* C6: when a budget ceiling is supplied, every returned hit has
\* price <= the ceiling, whichever stage produced it.
C6_BudgetCeilingInEveryStage ==
  (outcome = "returned" /\ Budget # NoneNum)
    => \A i \in 1..Len(ret) : ret[i].payload.price <= Budget

\* ------------------------------------------------------------------- C7
\* C7: with a real category and a non-empty query_text, no hit returned by
\* either exact-match pool has a category different from the requested one
\* (compared trimmed and case-insensitively).
C7_ExactMatchKeepsCategory ==
  (outcome = "returned" /\ RealCategory /\ req.query_text # <<>>)
    => \A i \in 1..Len(ret) :
         Lower(Strip(ret[i].payload.category)) = Lower(Strip(req.category))

\* the wide pool returned a hit while the catalog held a literal match of
\* another category
C7_Witness ==
  /\ stage = "wide"
  /\ RealCategory
  /\ ret # <<>>
  /\ \E k \in 1..Len(catalog) :
       /\ HasLiteral(catalog[k])
       /\ Lower(catalog[k].category) # Lower(Strip(req.category))

\* ------------------------------------------------------------------- C8
\* C8: when the only catalog item containing the query text is priced above
\* the budget, search (max_budget = budget) then rank still returns it, with
\* semantic score 1.0, budget fit 0.5 and price advantage 0.
C8_OverBudgetLiteralMatchRanked ==
  (/\ pc = "ranked"
   /\ outcome = "returned"
   /\ stage # "invalid"
   /\ Strip(req.query_text) # <<>>
   /\ req.category = None
   /\ req.min_score = NoneNum
   /\ \E k \in 1..Len(catalog) :
        /\ HasLiteral(catalog[k])
        /\ catalog[k].price > req.max_budget
        /\ \A m \in 1..Len(catalog) : HasLiteral(catalog[m]) => m = k)
    => \E i \in 1..Len(ranked) :
         /\ \E k \in 1..Len(catalog) :
              /\ HasLiteral(catalog[k])
              /\ catalog[k].product_id = ranked[i].product_id
         /\ ranked[i].semantic_score = ONE
         /\ ranked[i].budget_fit = HALF
         /\ ranked[i].price_advantage = 0

\* ------------------------------------------------------------------- C9
\* C9: every candidate emitted by the exact-match stage, from the narrow or
\* from the wide pool, is ranked with semantic score exactly 1.0.
C9_ExactMatchRankedWithFullScore ==
  (pc = "ranked" /\ outcome = "returned" /\ stage \in {"narrow", "wide"})
    => \A i \in 1..Len(ranked) : ranked[i].semantic_score = ONE

C11_QueryFailureDoesNotRaise ==
  (pc \in {"searched", "ranked", "responded"} /\ outcome = "raised")
    => scrollCalls = 1

\* ------------------------------------------------------------------ C12
\* C12: a schema-valid request to the search endpoint whose query can be
\* embedded is always answered with a successful response (status 200),
\* whatever the backend did and whatever payloads the candidates carry.
C12_EndpointDegradesGracefully ==
  (pc = "responded" /\ req.endpoint /\ Strip(req.query_text) # <<>>)
    => response.status = 200

C14_BudgetFitIsPriceRatio ==
  pc = "rank_done" =>
    \A i \in 1..Len(ranked) :
      (req.max_budget > 0 /\ ranked[i].price <= req.max_budget)
        => ranked[i].budget_fit * req.max_budget = ranked[i].price * ONE

C16_CompositeIsWeightedSum ==
  pc = "rank_done" =>
    \A i \in 1..Len(ranked) :
      LET hit == ret[ranked[i].product_id]
          b   == req.max_budget
          sem == IF hit.shape = "ScoredPoint" THEN hit.score ELSE 0
          bf  == IF hit.payload.price <= b THEN ONE ELSE HALF
          pa  == IF b > 0 /\ hit.payload.price < b
                 THEN ((b - hit.payload.price) * ONE) \div b ELSE 0
          sum == (w_semantic * sem + w_budget_fit * bf
                    + w_price_advantage * pa) \div WeightUnit
          low == (sum \div 100) * 100
      IN  ranked[i].composite_score =
            IF sum - low >= 50 THEN low + 100 ELSE low

\* score 0.9, within budget, one sixth below it:
\* 0.54 + 0.3 + 0.01667 is reported as 0.8567
C16_Witness ==
  /\ pc = "rank_done"
  /\ \E i \in 1..Len(ranked) :
       /\ ranked[i].semantic_score = 900000
       /\ ranked[i].budget_fit = ONE
       /\ ranked[i].price_advantage = 166700
       /\ ranked[i].composite_score = 856700

\* ------------------------------------------------------------------ C17
\* the request of the claim: through the endpoint's call of search, with a
\* query text that is not blank and no category, search then rank done
C17_Case ==
  /\ pc \in {"ranked", "responded"}
  /\ outcome = "returned"
  /\ req.max_budget # NoneNum /\ req.budget = NoneNum
  /\ req.category = None
  /\ TrimmedQuery # <<>>

\* the backend reported a similarity below 1 for h, an item within budget
\* whose title contains the query text
C17_Reported(h) ==
  /\ h.score < ONE
  /\ h.payload.price <= req.max_budget
  /\ Contains(Lower(h.payload.title), TrimmedQuery)

\* 0.6 * semantic + 0.3 * 1.0 + 0.1 * savings ratio, at four decimals
C17_Composite(semantic, price) ==
  LET b   == req.max_budget
      pa  == IF price < b THEN ((b - price) * ONE) \div b ELSE 0
      sum == (w_semantic * semantic + w_budget_fit * ONE
                + w_price_advantage * pa) \div WeightUnit
      low == (sum \div 100) * 100
  IN  IF sum - low >= 50 THEN low + 100 ELSE low

C18_SortedDescendingStable ==
  pc = "rank_done" =>
    \A i, j \in 1..Len(ranked) :
      i < j =>
        /\ ranked[i].composite_score >= ranked[j].composite_score
        /\ ranked[i].composite_score = ranked[j].composite_score
             => ranked[i].product_id < ranked[j].product_id

\* the third input hit was moved to the front, the first two tie behind it
C18_Witness ==
  /\ pc = "rank_done"
  /\ Len(ranked) = 3
  /\ ranked[1].product_id = 3
  /\ ranked[2].product_id = 1
  /\ ranked[3].product_id = 2
  /\ ranked[1].composite_score > ranked[2].composite_score
  /\ ranked[2].composite_score = ranked[3].composite_score
  /\ ret[1] # [ret[2] EXCEPT !.payload.product_id = 1]

\* ------------------------------------------------------------------ C19
\* C19: no result returned by Ranker.rank carries a reported
\* composite_score below the min_score the ranker was called with.
C19_NoReportedScoreBelowMinScore ==
  pc = "rank_done" =>
    \A i \in 1..Len(ranked) : ranked[i].composite_score >= req.min_score

\* ------------------------------------------------------------------ C20
\* C20: the final ranked list of a search request has at most top_k
\* entries, whichever retrieval stage produced the candidates.
C20_AtMostTopKResults ==
  pc \in {"ranked", "responded"} => Len(ranked) <= req.top_k

\* the full scan found more literal matches than top_k and top_k of them
\* were ranked
C20_Witness ==
  /\ pc = "ranked"
  /\ stage = "wide"
  /\ Len(ranked) = req.top_k
  /\ Cardinality({k \in 1..Len(all_points) :
                    all_points[k].match_type = "strict"}) > req.top_k

\* ------------------------------------------------------------------ C21
\* C21: a malformed candidate, one whose price cannot be parsed or whose
\* payload has no price, is skipped by Ranker.rank and absent from its
\* output.
C21_MalformedCandidatesSkipped ==
  pc = "rank_done" =>
    \A k \in 1..Len(ret) :
      (~ret[k].payload.has_price \/ ret[k].payload.price = Unparseable)
        => \A i \in 1..Len(ranked) : ranked[i].product_id # k

\* ------------------------------------------------------------------ C22
\* C22: whenever the final result set of a search request is empty, the
\* response carries the no-results explanation.
C22_EmptyResultIsExplained ==
  (pc = "responded" /\ response.status = 200 /\ response.total_results = 0)
    => response.explanation # None

\* ------------------------------------------------------------------ C23
\* C23: the explanation of a ranked result uses the under-budget sentence
\* with the amount budget - price exactly when price < budget, the
\* over-budget sentence with the amount price - budget exactly when
\* price > budget, and the exact-fit sentence exactly when price = budget.
C23_ExplanationFramesTheDelta ==
  pc = "rank_done" =>
    \A i \in 1..Len(ranked) :
      LET p == ranked[i].price
          b == req.max_budget
          e == ranked[i].explanation
      IN  /\ p < b <=> (e.sentence = "under budget" /\ e.amount = b - p)
          /\ p > b <=> (e.sentence = "over budget" /\ e.amount = p - b)
          /\ p = b <=> e.sentence = "fits exactly"

\* ------------------------------------------------------------------ C24
\* C24: every result record of a search response holds, as budget_fit_score
\* and price_advantage_score, the values the ranker computed for that
\* candidate; neither is null.
C24_ResponseExposesComponentScores ==
  (pc = "responded" /\ response.status = 200) =>
    \A i \in 1..Len(response.results) :
      /\ response.results[i].budget_fit_score # NoneNum
      /\ response.results[i].budget_fit_score = ranked[i].budget_fit
      /\ response.results[i].price_advantage_score # NoneNum
      /\ response.results[i].price_advantage_score = ranked[i].price_advantage

\* ------------------------------------------------------------------ C25
\* C25: within one search request the vector query is issued at most once
\* and the full scan at most once, and once a backend call has failed no
\* backend call is issued any more.
C25_NoBackendCallRetried ==
  [][/\ queryCalls' <= 1
     /\ scrollCalls' <= 1
     /\ outcome = "raised" =>
          (queryCalls' = queryCalls /\ scrollCalls' = scrollCalls)]_vars

\* the scan failed after a query that succeeded, and the request was
\* answered without another call
C25_Witness ==
  /\ pc = "responded"
  /\ outcome = "raised"
  /\ queryCalls = 1
  /\ scrollCalls = 1

\* the response search_products gives to request r when it is the only
\* request in flight against catalog cat
C26_Alone(cat, r) ==
  LET f      == BuildFilter(r.max_budget, r.budget, r.category)
      narrow == StrictLoop(QueryAnswer(cat, f, r.top_k),
                           QueryLc(r.query_text), CategoryLc(r.category))
      wide   == StrictLoop(ScrollResponse(cat, "Record", NoneNum),
                           QueryLc(r.query_text), CategoryLc(r.category))
      hits   == IF narrow.strict_matches # <<>>
                THEN Take(narrow.strict_matches, r.top_k)
                ELSE Take(wide.strict_matches, r.top_k)
  IN  SearchResponse(Rank(hits, r.max_budget, 0))

\* C26: under every interleaving of two search requests and of feedback
\* submissions, a step of one request changes nothing of the other request,
\* no search step writes the feedback store or the catalog, and every
\* answered request carries the response it would get running alone
C26_ConcurrentRequestsIndependent ==
  [][/\ \A p \in Procs, q \in Procs :
          (p # q /\ inflight'[p] # inflight[p]) => inflight'[q] = inflight[q]
     /\ inflight' # inflight =>
          (user_feedback_store' = user_feedback_store /\ catalog' = catalog)
     /\ \A p \in Procs :
          inflight'[p].pc = "done" =>
            inflight'[p].response = C26_Alone(catalog', inflight'[p].req)]_vars

\* request 2 is answered with a product while request 1, asking something
\* else, still holds its hits unranked, and a feedback entry has been stored
C26_Witness ==
  /\ inflight[2].pc = "done"
  /\ inflight[2].response.total_results > 0
  /\ inflight[1].pc = "rank"
  /\ inflight[1].hits # <<>>
  /\ inflight[1].req # inflight[2].req
  /\ inflight[1].hits # inflight[2].hits
  /\ user_feedback_store # <<>>

\* ------------------------------------------------------------------ C27
\* the category condition of the vector stage alone: the filter built for the
\* requested category with no budget, as the backend evaluates it
C27_VectorStageAccepts(item) ==
  PassesFilter(item, BuildFilter(NoneNum, NoneNum, req.category))

\* C27: for every catalog item and every non-sentinel requested category, the
\* category condition of the vector stage accepts the item exactly when the
\* category test of the exact-match stage accepts it.
C27_CategoryConditionsAgree ==
  RealCategory =>
    \A k \in 1..Len(catalog) :
      C27_VectorStageAccepts(catalog[k])
        <=> PassesCategory(catalog[k], CategoryLc(req.category))

\* ------------------------------------------------------------------ C28
\* C28: after search returns, every hit object handed over by the vector
\* query or by the full-catalog scan has the score and attributes it had when
\* the backend returned it.
C28_BackendHitsUntouched ==
  SearchReturned => (results = backendHits /\ all_points = scanned)

\* ------------------------------------------------------------------ C29
\* C29: for any product list and any batch size, the default included,
\* index_products completes without raising and returns the number of
\* products the collection received.
C29_IndexReturnsUpsertedCount ==
  indexer.pc = "done" =>
    /\ indexer.outcome = "returned"
    /\ indexer.result = Len(indexer.upserted)

\* ------------------------------------------------------------------ C30
\* C30: embed_batch returns exactly one vector per input text, in input
\* order: the k-th vector is the embedding of the k-th text, or the zero
\* vector of a failed batch.
C30_OneVectorPerText ==
  batcher.pc = "done" =>
    /\ Len(batcher.all_embeddings) = Len(batcher.texts)
    /\ \A k \in 1..Len(batcher.texts) :
         batcher.all_embeddings[k] \in {VectorOf(Strip(batcher.texts[k])), ZeroVector}

====
